---- MODULE Spec2Model ----
(***************************************************************************)
(* Model of src/src/components/CrossFadeIcon.tsx: the CrossFadeIcon        *)
(* component,                                                              *)
(* the FAB.Group speed dial and the shadow() style helper.                 *)
(*                                                                         *)
(* Animated values are integers in hundredths (1 is 100, 0.32 is 32).      *)
(* Time is counted in milliseconds; every duration of the file is a         *)
(* multiple of the stagger interval 50 * scale, so a composite animation   *)
(* only has events on its own grid of 50 * scale and is advanced one grid  *)
(* step at a time.                                                         *)
(***************************************************************************)
EXTENDS Integers, Sequences, FiniteSets, TLC

\* ------------------------------------------------------------------ bounds
\* FAB.Group: actions in a list, updates in a run
MaxActions == 6
MaxRenders == 2
\* FAB.Group with its press handlers
TapMaxActions == 2
TapMaxRenders == 2
\* CrossFadeIcon: updates in a run
MaxIconRenders == 3
\* shadow: constant elevations 0..MaxElevation, animated elevations
\* -MinAnimated..MaxAnimated (in tenths)
MaxElevation == 12
MaxAnimated == 260
MinAnimated == 20
\* theme.animation.scale
Scale == 1

\* --------------------------------------------------------------- constants
Stagger == 50 * Scale
ItemDuration == 150 * Scale
BackdropOpenDuration == 250 * Scale
BackdropCloseDuration == 200 * Scale
ItemOpenValue == 100
ItemClosedValue == 0
BackdropOpenValue == 32
BackdropClosedValue == 0
BackdropInitialValue == 0

VARIABLES
    mounted,      \* FABGroup: FALSE after construction, TRUE once mounted
    open,         \* FABGroup props.open
    actions,      \* FABGroup props.actions
    backdrop,     \* FABGroup state.backdrop (value of the Animated.Value)
    animations,   \* FABGroup state.animations (values, by position)
    groups,       \* composite animations in flight, next to advance first
    renders,      \* number of updates so far
    transition,   \* TRUE iff the latest update changed props.open
    appended,     \* entries the latest getDerivedStateFromProps created
    trace,        \* callbacks called by a press handler since the last update
    dropped,      \* TRUE iff the latest update answered a request of the
                  \* group with the open value it already had
    interrupted   \* TRUE iff the latest update changed props.open while a
                  \* composite animation was in flight

varsFAB == <<mounted, open, actions, backdrop, animations, groups, renders,
             transition, appended, trace, dropped, interrupted>>

VARIABLES
    iconMounted,  \* CrossFadeIcon: FALSE after construction, TRUE once mounted
    source,       \* CrossFadeIcon props.source
    isOpen,       \* CrossFadeIcon props.isOpen
    currentIcon,  \* CrossFadeIcon state.currentIcon
    previousIcon, \* CrossFadeIcon state.previousIcon
    fade,         \* CrossFadeIcon state.fade (value of the Animated.Value)
    fadeAnim,     \* the timing animation of state.fade
    iconRenders,  \* number of updates so far
    lastSource    \* props.source of the render before the latest one

varsIcon == <<iconMounted, source, isOpen, currentIcon, previousIcon, fade,
              fadeAnim, iconRenders, lastSource>>

VARIABLES
    elevation,    \* shadow: the argument of the latest call
    style         \* shadow: the style the call returned, at the current value
                  \* of an animated argument

varsShadow == <<elevation, style>>

vars == <<varsFAB, varsIcon, varsShadow>>

\* ------------------------------------------------------------- FAB.Group

ActionList(n) == [i \in 1..n |-> i]

Reverse(s) == [k \in 1..Len(s) |-> s[Len(s) + 1 - k]]

\* value of a timing animation `elapsed` after its start (linear easing)
Lerp(from, to, elapsed, dur) ==
    IF elapsed >= dur THEN to ELSE from + ((to - from) * elapsed) \div dur

\* the least element of a non-empty set of integers
Least(S) == CHOOSE x \in S : \A y \in S : x <= y

\* the segment of inputRange an input falls in (Animated interpolation)
FindRange(x, inR) ==
    LET c == {i \in 2..(Len(inR) - 1) : inR[i] >= x}
    IN  IF c = {} THEN Len(inR) - 1 ELSE Least(c) - 1

\* mutant: the output of the breakpoint below the input, no interpolation
Interpolate_Step(x, inR, outR) == outR[FindRange(x, inR)]

\* value.interpolate({inputRange, outputRange}) at input x
Interpolate(x, inR, outR) ==
    LET s == FindRange(x, inR)
    IN  outR[s] + ((x - inR[s]) * (outR[s + 1] - outR[s]))
                    \div (inR[s + 1] - inR[s])

ItemTarget(o) == IF o THEN ItemOpenValue ELSE ItemClosedValue
BackdropTarget(o) == IF o THEN BackdropOpenValue ELSE BackdropClosedValue
BackdropDuration(o) == IF o THEN BackdropOpenDuration ELSE BackdropCloseDuration

\* mutant: entries are appended for new actions but never removed
FABGroup_getDerivedStateFromProps_NoShrink(nextActions, nextOpen, prevAnimations) ==
    [i \in 1..(IF Len(nextActions) > Len(prevAnimations)
               THEN Len(nextActions) ELSE Len(prevAnimations)) |->
        IF i <= Len(prevAnimations) THEN prevAnimations[i]
        ELSE ItemTarget(nextOpen)]

\* mutant: a new entry always starts at 0
FABGroup_getDerivedStateFromProps_FreshZero(nextActions, nextOpen, prevAnimations) ==
    [i \in 1..Len(nextActions) |->
        IF i <= Len(prevAnimations) THEN prevAnimations[i]
        ELSE ItemClosedValue]

\* static getDerivedStateFromProps(nextProps, prevState)
FABGroup_getDerivedStateFromProps(nextActions, nextOpen, prevAnimations) ==
    [i \in 1..Len(nextActions) |->
        IF i <= Len(prevAnimations) THEN prevAnimations[i]
        ELSE ItemTarget(nextOpen)]

\* target 0 is the backdrop value, target i >= 1 is state.animations[i]
RunningOn(g, tgt) ==
    IF tgt = 0 THEN g.bd.st = "run"
    ELSE \E k \in 1..Len(g.items) :
            g.items[k].idx = tgt /\ g.items[k].st = "run"

\* Starting a timing on a value stops the animation that value is running
\* (Animated.Value.animate). The stopped timing reports finished: false to its
\* Animated.parallel, which then stops all its other members (stopTogether,
\* the default): running timings stop where they are, pending delays are
\* cancelled. A member of a stagger that is still in its delay has no
\* animation on its value yet, so a start on that value stops nothing.
StopPrevious(gs, tgt) == SelectSeq(gs, LAMBDA g : ~RunningOn(g, tgt))

GroupEnded(g) ==
    /\ g.bd.st = "end"
    /\ \A k \in 1..Len(g.items) : g.items[k].st \in {"end", "dropped"}

\* Animated.stagger(50 * scale, list): member k starts after (k-1) intervals
StaggerDelay(k) == Stagger * (k - 1)

\* mutant: the opening order is not reversed
StaggerOrder_NoReverse(o, n) == ActionList(n)

\* the order in which componentDidUpdate hands the item timings to stagger
StaggerOrder(o, n) == IF o THEN Reverse(ActionList(n)) ELSE ActionList(n)

\* Animated.parallel([timing(backdrop), stagger(...)]).start()
ParallelStart(o, vals, bdVal, gs, r) ==
    LET n     == Len(vals)
        order == StaggerOrder(o, n)
        gs1   == StopPrevious(gs, 0)
        gs2   == IF n > 0 THEN StopPrevious(gs1, order[1]) ELSE gs1
        g     == [open  |-> o,
                  update |-> r,
                  age   |-> 0,
                  bd    |-> [st |-> "run", from |-> bdVal],
                  items |-> [k \in 1..n |->
                              IF k = 1
                              THEN [idx |-> order[k], st |-> "run",
                                    from |-> vals[order[k]]]
                              ELSE [idx |-> order[k], st |-> "delay",
                                    from |-> 0]]]
    IN  Append(gs2, g)

\* timings on values that left state.animations are no longer observable
DropItems(g, n) ==
    [g EXCEPT !.items = [k \in 1..Len(g.items) |->
        IF g.items[k].idx > n
        THEN [g.items[k] EXCEPT !.st = "dropped"]
        ELSE g.items[k]]]

DropAll(gs, n) ==
    SelectSeq([j \in 1..Len(gs) |-> DropItems(gs[j], n)],
              LAMBDA g : ~GroupEnded(g))

\* mutant: the animations are started on every update
FABGroup_componentDidUpdate_NoGuard(prevOpen, o, vals, bdVal, gs, r) ==
    ParallelStart(o, vals, bdVal, gs, r)

\* componentDidUpdate(prevProps)
FABGroup_componentDidUpdate(prevOpen, o, vals, bdVal, gs, r) ==
    IF o = prevOpen THEN gs ELSE ParallelStart(o, vals, bdVal, gs, r)

\* the group after one more interval of its own clock, before its starts
Advance(g) ==
    LET age == g.age + Stagger
    IN  [open  |-> g.open,
         update |-> g.update,
         age   |-> age,
         bd    |-> IF g.bd.st = "run" /\ age >= BackdropDuration(g.open)
                   THEN [g.bd EXCEPT !.st = "end"] ELSE g.bd,
         items |-> [k \in 1..Len(g.items) |->
                     LET it == g.items[k] IN
                     IF it.st = "run" /\ age - StaggerDelay(k) >= ItemDuration
                     THEN [it EXCEPT !.st = "end"]
                     ELSE IF it.st = "delay" /\ age >= StaggerDelay(k)
                     THEN [it EXCEPT !.st = "run", !.from = animations[it.idx]]
                     ELSE it]]

\* indices whose timing the group starts at this step
Starts(g, h) ==
    {g.items[k].idx : k \in {j \in 1..Len(g.items) :
                               g.items[j].st = "delay" /\ h.items[j].st = "run"}}

\* value of state.animations[i] after the head group advanced
ItemAfter(g, i) ==
    LET age == g.age + Stagger
        ks  == {k \in 1..Len(g.items) :
                   g.items[k].idx = i /\ g.items[k].st = "run"}
    IN  IF ks = {} THEN animations[i]
        ELSE LET k == CHOOSE k \in ks : TRUE
             IN  Lerp(g.items[k].from, ItemTarget(g.open),
                      age - StaggerDelay(k), ItemDuration)

BackdropAfter(g) ==
    IF g.bd.st = "run"
    THEN Lerp(g.bd.from, BackdropTarget(g.open), g.age + Stagger,
              BackdropDuration(g.open))
    ELSE backdrop

FABConstruct ==
    /\ mounted = FALSE
    /\ backdrop = BackdropInitialValue
    /\ animations = <<>>
    /\ groups = <<>>
    /\ renders = 0
    /\ transition = FALSE
    /\ appended = 0
    /\ trace = <<>>
    /\ dropped = FALSE
    /\ interrupted = FALSE

\* first render: getDerivedStateFromProps, render, no componentDidUpdate
Mount ==
    /\ ~mounted
    /\ mounted' = TRUE
    /\ animations' = FABGroup_getDerivedStateFromProps(actions, open, animations)
    /\ appended' = Len(animations') - Len(animations)
    /\ UNCHANGED <<open, actions, backdrop, groups, renders, transition,
                   trace, dropped, interrupted>>
    /\ UNCHANGED <<varsIcon, varsShadow>>

Requested ==
    \E k \in 1..Len(trace) :
        trace[k].call = "onStateChange" /\ trace[k].by = "group"

\* the parent re-renders the group with new props:
\* getDerivedStateFromProps, render, componentDidUpdate
Render(nextOpen, nextActions) ==
    /\ mounted
    /\ renders' = renders + 1
    /\ open' = nextOpen
    /\ actions' = nextActions
    /\ animations' =
          FABGroup_getDerivedStateFromProps(nextActions, nextOpen, animations)
    /\ appended' = IF Len(animations') > Len(animations)
                   THEN Len(animations') - Len(animations) ELSE 0
    /\ groups' = FABGroup_componentDidUpdate(open, nextOpen, animations',
                    backdrop, DropAll(groups, Len(nextActions)), renders')
    /\ transition' = (nextOpen # open)
    /\ dropped' = (Requested /\ nextOpen = open)
    /\ interrupted' = (nextOpen # open /\ groups # <<>>)
    /\ trace' = <<>>
    /\ UNCHANGED <<mounted, backdrop>>
    /\ UNCHANGED <<varsIcon, varsShadow>>

\* 50 * scale elapse on the clock of the composite animation whose turn it
\* is. The animations in flight take turns in the order of their phases: one
\* started between two events of another keeps that place in every round.
\* Its running timings move on or end, the stagger member whose delay has
\* elapsed starts its timing (stopping the animation its value is running).
Step ==
    /\ groups # <<>>
    /\ LET g    == Head(groups)
           h    == Advance(g)
           rest == SelectSeq(Tail(groups),
                     LAMBDA x : \A i \in Starts(g, h) : ~RunningOn(x, i))
       IN  /\ backdrop' = BackdropAfter(g)
           /\ animations' = [i \in 1..Len(animations) |-> ItemAfter(g, i)]
           /\ groups' = IF GroupEnded(h) THEN rest ELSE Append(rest, h)
    /\ UNCHANGED <<mounted, open, actions, renders, transition, appended,
                   trace, dropped, interrupted>>
    /\ UNCHANGED <<varsIcon, varsShadow>>

\* render: what the backdrop and the action items are drawn with.
\* Opacities are in hundredths, scales in 1/500 (0.8 is 400, 1 is 500).
ScaleClosedOutput == 400
ScaleOpenOutput == 500
ScaleConstant == 500

backdropOpacity == backdrop

opacities == animations

\* mutant: the scale follows the value whatever props.open is
scales_AlwaysInterpolated ==
    [i \in 1..Len(opacities) |->
        Interpolate(opacities[i], <<ItemClosedValue, ItemOpenValue>>,
                    <<ScaleClosedOutput, ScaleOpenOutput>>)]

scales ==
    [i \in 1..Len(opacities) |->
        IF open
        THEN Interpolate(opacities[i], <<ItemClosedValue, ItemOpenValue>>,
                         <<ScaleClosedOutput, ScaleOpenOutput>>)
        ELSE ScaleConstant]

\* style of the Animated.View of action i
ItemStyle(i) == [scale |-> scales[i], opacity |-> opacities[i]]

\* ----------------------------------------------------- FAB.Group presses

\* what a callback supplied by the caller does when it is called
Outcomes == {"returns", "requestsOpen", "requestsClose", "throws"}

Call(c, i, o, by, threw) ==
    [call |-> c, item |-> i, open |-> o, by |-> by, threw |-> threw]

\* the calls made by running a caller's callback
Callback(name, i, outcome) ==
    <<Call(name, i, FALSE, "group", outcome = "throws")>> \o
    (IF outcome \in {"requestsOpen", "requestsClose"}
     THEN <<Call("onStateChange", 0, outcome = "requestsOpen", "callback",
                 FALSE)>>
     ELSE <<>>)

\* private close = () => this.props.onStateChange({ open: false })
close == <<Call("onStateChange", 0, FALSE, "group", FALSE)>>

\* private toggle = () => this.props.onStateChange({ open: !this.props.open })
toggle == <<Call("onStateChange", 0, ~open, "group", FALSE)>>

\* onPress of the Button of action i: it.onPress(); this.close()
ActionOnPress(i, outcome) ==
    IF outcome = "throws" THEN Callback("action.onPress", i, outcome)
    ELSE Callback("action.onPress", i, outcome) \o close

\* onPress of the FAB: onPress?.(); this.toggle()
FABOnPress(cb) ==
    IF cb = "absent" THEN toggle
    ELSE IF cb = "throws" THEN Callback("onPress", 0, cb)
    ELSE Callback("onPress", 0, cb) \o toggle

\* mutant: the backdrop and the action items take taps in every render
AcceptsTaps_Always == TRUE

\* pointerEvents of the backdrop and of the action items
AcceptsTaps == open

PressAction(i, outcome) ==
    /\ mounted
    /\ AcceptsTaps
    /\ i \in 1..Len(actions)
    /\ trace' = ActionOnPress(i, outcome)
    /\ UNCHANGED <<mounted, open, actions, backdrop, animations, groups,
                   renders, transition, appended, dropped, interrupted>>
    /\ UNCHANGED <<varsIcon, varsShadow>>

PressBackdrop ==
    /\ mounted
    /\ AcceptsTaps
    /\ trace' = close
    /\ UNCHANGED <<mounted, open, actions, backdrop, animations, groups,
                   renders, transition, appended, dropped, interrupted>>
    /\ UNCHANGED <<varsIcon, varsShadow>>

PressFAB(cb) ==
    /\ mounted
    /\ trace' = FABOnPress(cb)
    /\ UNCHANGED <<mounted, open, actions, backdrop, animations, groups,
                   renders, transition, appended, dropped, interrupted>>
    /\ UNCHANGED <<varsIcon, varsShadow>>

\* --------------------------------------------------------- CrossFadeIcon

Undefined == "undefined"
Icons == {"plus", "close", ""}
Truthy(x) == x \notin {Undefined, ""}

FadeInitialValue == 0
FadeOpenValue == 100
FadeClosedValue == 0
FadeDuration == 200 * Scale
FadeFrame == 50 * Scale
RotateClosed == 0
RotateOpen == 4500

NoAnim == [st |-> "idle", from |-> 0, to |-> 0, elapsed |-> 0]

\* mutant: the previous icon is archived but the current one is not replaced
CrossFadeIcon_getDerivedStateFromProps_KeepCurrent(nextSource, cur, prev) ==
    IF cur = nextSource
    THEN [currentIcon |-> cur, previousIcon |-> prev]
    ELSE [currentIcon |-> cur, previousIcon |-> cur]

\* static getDerivedStateFromProps(nextProps, nextState)
CrossFadeIcon_getDerivedStateFromProps(nextSource, cur, prev) ==
    IF cur = nextSource
    THEN [currentIcon |-> cur, previousIcon |-> prev]
    ELSE [currentIcon |-> nextSource, previousIcon |-> cur]

\* mutant: the timing always runs to 1
CrossFadeIcon_componentDidUpdate_AlwaysOpen(nowOpen, fadeVal) ==
    [st |-> "run", from |-> fadeVal, to |-> FadeOpenValue, elapsed |-> 0]

\* componentDidUpdate: Animated.timing(this.state.fade, ...).start()
CrossFadeIcon_componentDidUpdate(nowOpen, fadeVal) ==
    [st |-> "run", from |-> fadeVal,
     to |-> IF nowOpen THEN FadeOpenValue ELSE FadeClosedValue,
     elapsed |-> 0]

\* render: the rotation of the icon, in hundredths of a degree
rotateNext ==
    IF Truthy(previousIcon)
    THEN Interpolate(fade, <<FadeClosedValue, FadeOpenValue>>,
                     <<RotateClosed, RotateOpen>>)
    ELSE RotateClosed

\* render: the icon drawn
RenderedIcon == currentIcon

IconConstruct ==
    /\ iconMounted = FALSE
    /\ currentIcon = source
    /\ previousIcon = Undefined
    /\ fade = FadeInitialValue
    /\ fadeAnim = NoAnim
    /\ iconRenders = 0
    /\ lastSource = Undefined

IconMount ==
    /\ ~iconMounted
    /\ iconMounted' = TRUE
    /\ LET d == CrossFadeIcon_getDerivedStateFromProps(source, currentIcon,
                                                       previousIcon)
       IN  /\ currentIcon' = d.currentIcon
           /\ previousIcon' = d.previousIcon
    /\ UNCHANGED <<source, isOpen, fade, fadeAnim, iconRenders, lastSource>>
    /\ UNCHANGED <<varsFAB, varsShadow>>

IconRender(nextSource, nextIsOpen) ==
    /\ iconMounted
    /\ iconRenders' = iconRenders + 1
    /\ source' = nextSource
    /\ isOpen' = nextIsOpen
    /\ lastSource' = source
    /\ LET d == CrossFadeIcon_getDerivedStateFromProps(nextSource, currentIcon,
                                                       previousIcon)
       IN  /\ currentIcon' = d.currentIcon
           /\ previousIcon' = d.previousIcon
    /\ fadeAnim' = CrossFadeIcon_componentDidUpdate(nextIsOpen, fade)
    /\ UNCHANGED <<iconMounted, fade>>
    /\ UNCHANGED <<varsFAB, varsShadow>>

\* 50 * scale elapse on the timing animation of state.fade
IconStep ==
    /\ fadeAnim.st = "run"
    /\ LET e == fadeAnim.elapsed + FadeFrame
       IN  /\ fade' = Lerp(fadeAnim.from, fadeAnim.to, e, FadeDuration)
           /\ fadeAnim' = IF e >= FadeDuration THEN NoAnim
                          ELSE [fadeAnim EXCEPT !.elapsed = e]
    /\ UNCHANGED <<iconMounted, source, isOpen, currentIcon, previousIcon,
                   iconRenders, lastSource>>
    /\ UNCHANGED <<varsFAB, varsShadow>>

\* ---------------------------------------------------------------- shadow
\* elevation is counted in tenths, lengths and opacity in 1/800

SHADOW_COLOR == "black"
SHADOW_OPACITY == 280

inputRange == <<0, 10, 20, 30, 80, 240>>
HeightRange == <<0, 80, 400, 600, 1600, 5600>>
RadiusRange == <<0, 800, 2000, 4000, 9600, 19200>>

EmptyStyle == [f \in {} |-> 0]

Number(e) == [kind |-> "number", v |-> 10 * e]
AnimatedValue(v) == [kind |-> "animated", v |-> v]

\* export default function shadow(elevation = 0)
shadow(elev) ==
    IF elev.kind = "animated"
    THEN [shadowColor   |-> SHADOW_COLOR,
          shadowOffset  |-> [width  |-> 0,
                             height |-> Interpolate(elev.v, inputRange,
                                                    HeightRange)],
          shadowOpacity |-> SHADOW_OPACITY,
          shadowRadius  |-> Interpolate(elev.v, inputRange, RadiusRange)]
    ELSE IF elev.v = 0 THEN EmptyStyle
    ELSE LET height == CASE elev.v = 10 -> 400
                         [] elev.v = 20 -> 600
                         [] OTHER -> 80 * (elev.v - 10)
             radius == CASE elev.v = 10 -> 600
                         [] elev.v = 20 -> 1200
                         [] OTHER -> 80 * elev.v
         IN  [shadowColor   |-> SHADOW_COLOR,
              shadowOffset  |-> [width |-> 0, height |-> 0],
              shadowOpacity |-> SHADOW_OPACITY,
              shadowRadius  |-> radius]

\* shadow() with the default argument
ShadowDefault ==
    /\ elevation = Number(0)
    /\ style = shadow(elevation)

\* shadow(e) with a constant elevation
ShadowNumber(e) ==
    /\ elevation' = Number(e)
    /\ style' = shadow(elevation')
    /\ UNCHANGED <<varsFAB, varsIcon>>

\* shadow(new Animated.Value(v))
ShadowAnimated(v) ==
    /\ elevation' = AnimatedValue(v)
    /\ style' = shadow(elevation')
    /\ UNCHANGED <<varsFAB, varsIcon>>

\* the animated elevation moves to v: the interpolations follow it
ShadowSetValue(v) ==
    /\ elevation.kind = "animated"
    /\ elevation' = [elevation EXCEPT !.v = v]
    /\ style' = shadow(elevation')
    /\ UNCHANGED <<varsFAB, varsIcon>>

\* -------------------------------------------------------- specifications

IconIdle == source = "plus" /\ isOpen = FALSE /\ IconConstruct
FABIdle == FABConstruct /\ open = FALSE /\ actions = <<>>

\* the speed dial under re-renders and the passing of time
InitFAB ==
    /\ FABConstruct
    /\ open \in BOOLEAN
    /\ actions \in {ActionList(n) : n \in 0..MaxActions}
    /\ IconIdle
    /\ ShadowDefault

NextFAB ==
    \/ Mount
    \/ \E o \in BOOLEAN, n \in 0..MaxActions :
          renders < MaxRenders /\ Render(o, ActionList(n))
    \/ Step

SpecFAB == InitFAB /\ [][NextFAB]_vars

\* the speed dial with its press handlers
InitTap ==
    /\ FABConstruct
    /\ open \in BOOLEAN
    /\ actions \in {ActionList(n) : n \in 0..TapMaxActions}
    /\ IconIdle
    /\ ShadowDefault

NextTap ==
    \/ Mount
    \/ \E o \in BOOLEAN, n \in 0..TapMaxActions :
          renders < TapMaxRenders /\ Render(o, ActionList(n))
    \/ Step
    \/ \E i \in 1..TapMaxActions, outcome \in Outcomes :
          PressAction(i, outcome)
    \/ PressBackdrop
    \/ \E cb \in Outcomes \cup {"absent"} : PressFAB(cb)

SpecTap == InitTap /\ [][NextTap]_vars

\* the cross-fade icon
InitIcon ==
    /\ source \in Icons
    /\ isOpen \in BOOLEAN
    /\ IconConstruct
    /\ FABIdle
    /\ ShadowDefault

NextIcon ==
    \/ IconMount
    \/ \E s \in Icons, o \in BOOLEAN :
          iconRenders < MaxIconRenders /\ IconRender(s, o)
    \/ IconStep

SpecIcon == InitIcon /\ [][NextIcon]_vars

\* the cross-fade icon with the frames of its timing animation delivered:
\* a started Animated.timing is advanced on every animation frame
SpecIconLive == InitIcon /\ [][NextIcon]_vars /\ WF_vars(IconStep)

\* the shadow helper
InitShadow ==
    /\ ShadowDefault
    /\ FABIdle
    /\ IconIdle

NextShadow ==
    \/ \E e \in 0..MaxElevation : ShadowNumber(e)
    \/ \E v \in (0 - MinAnimated)..MaxAnimated : ShadowAnimated(v)
    \/ \E v \in (0 - MinAnimated)..MaxAnimated : ShadowSetValue(v)

SpecShadow == InitShadow /\ [][NextShadow]_vars

\* ----------------------------------------------------------------- claims

\* C1: after a transition of open that no further prop change follows, once
\* every animation has settled each itemProgress[i] is 1 if open and 0 if not.
C1_ItemProgressConverges ==
    (mounted /\ transition /\ groups = <<>>) =>
        \A i \in 1..Len(animations) : animations[i] = ItemTarget(open)

\* C2: once mounted, state.animations has exactly one entry per action of
\* the current props, whatever the renders did to the list.
C2_LengthInvariant ==
    mounted => /\ Len(animations) = Len(actions)
               /\ DOMAIN animations = DOMAIN actions

\* C2 witness: the list was shrunk while a stagger was in flight
C2_Witness ==
    /\ mounted
    /\ renders = 2
    /\ Len(actions) > 0
    /\ Len(animations) = Len(actions)
    /\ \E j \in 1..Len(groups) : \E k \in 1..Len(groups[j].items) :
          groups[j].items[k].st = "dropped"

\* C3: a render (or the mount) that supplies more actions than there are
\* tracked values creates each new entry at 1 if its open prop is true and at
\* 0 if not, keeps every existing entry's value, and any animation it starts
\* on a new entry targets the value the entry already has.
C3_AppendedMatchOpen ==
    [][(mounted' /\ Len(animations') > Len(animations)) =>
          /\ \A i \in 1..Len(animations') :
                IF i <= Len(animations)
                THEN animations'[i] = animations[i]
                ELSE animations'[i] =
                        (IF open' THEN ItemOpenValue ELSE ItemClosedValue)
          /\ \A j \in 1..Len(groups') : \A k \in 1..Len(groups'[j].items) :
                (/\ groups'[j].items[k].idx > Len(animations)
                 /\ groups'[j].items[k].st # "dropped")
                => (IF groups'[j].open THEN ItemOpenValue ELSE ItemClosedValue)
                      = animations'[groups'[j].items[k].idx]
      ]_vars

\* C3 witness: entries were appended to an open group whose first entry is
\* in the middle of its opening animation
C3_Witness ==
    /\ mounted
    /\ open
    /\ renders > 0
    /\ appended > 0
    /\ Len(animations) > appended
    /\ animations[1] \notin {ItemOpenValue, ItemClosedValue}
    /\ \A i \in (Len(animations) - appended + 1)..Len(animations) :
          animations[i] = ItemOpenValue

\* the offset the claim gives the timing of index i (1-based) of n actions
C4_Offset(o, n, i) == IF o THEN 50 * Scale * (n - i) ELSE 50 * Scale * (i - 1)

\* C4: in a transition with n actions the timing of index i has started
\* exactly when 50*scale*(n-1-i) (opening) or 50*scale*i (closing), i counted
\* from 0, have elapsed; so a later index starts first when opening and an
\* earlier index starts first when closing.
C4_StaggerOrder ==
    \A j \in 1..Len(groups) :
        LET g == groups[j]
            n == Len(g.items)
            started(i) == \E k \in 1..n :
                             /\ g.items[k].idx = i
                             /\ g.items[k].st \in {"run", "end"}
            pending(i) == \E k \in 1..n :
                             g.items[k].idx = i /\ g.items[k].st = "delay"
        IN  /\ \A i \in 1..n : \E k \in 1..n : g.items[k].idx = i
            /\ \A k \in 1..n :
                  g.items[k].st # "dropped" =>
                     ((g.items[k].st = "delay")
                        <=> (g.age < C4_Offset(g.open, n, g.items[k].idx)))
            /\ \A a \in 1..n : \A b \in (a + 1)..n :
                  IF g.open THEN ~(started(a) /\ pending(b))
                  ELSE ~(started(b) /\ pending(a))

\* C4 witness: one interval into an opening of at least three actions the
\* last two have started and the first has not
C4_Witness ==
    \E j \in 1..Len(groups) :
        LET g == groups[j]
            n == Len(g.items)
        IN  /\ g.open
            /\ n >= 3
            /\ g.age = Stagger
            /\ \E k \in 1..n : g.items[k].idx = n /\ g.items[k].st = "run"
            /\ \E k \in 1..n : g.items[k].idx = n - 1 /\ g.items[k].st = "run"
            /\ \E k \in 1..n : g.items[k].idx = 1 /\ g.items[k].st = "delay"

\* C5: an activation of action i calls action i's onPress exactly once and
\* then the group issues exactly one onStateChange({open: false}), as the
\* last call, whatever the callback does.
C5_OneCallbackOneClose ==
    (trace # <<>> /\ trace[1].call = "action.onPress") =>
        /\ Cardinality({k \in 1..Len(trace) :
                           trace[k].call = "action.onPress"}) = 1
        /\ Cardinality({k \in 1..Len(trace) :
                           /\ trace[k].call = "onStateChange"
                           /\ trace[k].by = "group"}) = 1
        /\ trace[Len(trace)].call = "onStateChange"
        /\ trace[Len(trace)].by = "group"
        /\ trace[Len(trace)].open = FALSE

\* C6: when the onPress callback of an activated action throws, the group
\* still issues onStateChange({open: false}).
C6_CloseAfterFailure ==
    (trace # <<>> /\ trace[1].call = "action.onPress" /\ trace[1].threw) =>
        \E k \in 1..Len(trace) :
            /\ trace[k].call = "onStateChange"
            /\ trace[k].by = "group"
            /\ trace[k].open = FALSE

\* C7: an update that answers a request of the group with the open value it
\* already had starts no animation, stops none, and leaves the backdrop value
\* and the value of every entry that stays in the list unchanged.
C7_DroppedRequestChangesNothing ==
    [][(Requested /\ renders' = renders + 1 /\ open' = open) =>
          /\ backdrop' = backdrop
          /\ \A i \in 1..Len(animations) :
                i <= Len(animations') => animations'[i] = animations[i]
          /\ \A j \in 1..Len(groups') : groups'[j].update # renders'
          /\ groups' = DropAll(groups, Len(actions'))
      ]_vars

\* C7 witness: a request was dropped while an animation was in flight
C7_Witness ==
    /\ dropped
    /\ groups # <<>>
    /\ Len(animations) > 0

\* C8: the icon drawn is the source of the most recent render.
C8_ShowsLatestIcon == RenderedIcon = source

\* C8 witness: the icon changed in the latest of several updates
C8_Witness ==
    /\ iconMounted
    /\ iconRenders >= 2
    /\ lastSource # source
    /\ previousIcon = lastSource
    /\ currentIcon = source

\* C9: the rotation is not 0 only if the previous render's icon differs from
\* the current render's icon.
C9_RotationOnlyOnChange ==
    rotateNext # RotateClosed =>
        (lastSource # Undefined /\ lastSource # source)

\* what the claim gives for a constant elevation e
C10_Reference(e) ==
    [height  |-> IF e = 1 THEN 400 ELSE IF e = 2 THEN 600 ELSE 800 * (e - 1),
     radius  |-> IF e = 1 THEN 600 ELSE IF e = 2 THEN 1200 ELSE 800 * e,
     opacity |-> 280,
     width   |-> 0]

\* C10: shadow(0) is the empty style; shadow(1) has offset height 0.5 and
\* radius 0.75, shadow(2) 0.75 and 1.5, shadow(e) e-1 and e for e >= 3;
\* opacity is 0.35 and offset width 0 for every e > 0.
C10_StaticShadow ==
    elevation.kind = "number" =>
        LET e == elevation.v \div 10
        IN  IF e = 0 THEN DOMAIN style = {}
            ELSE /\ style.shadowOffset.height = C10_Reference(e).height
                 /\ style.shadowRadius = C10_Reference(e).radius
                 /\ style.shadowOpacity = C10_Reference(e).opacity
                 /\ style.shadowOffset.width = C10_Reference(e).width

\* the table the claim gives: elevation in tenths, lengths in 1/800
C11_Inputs == <<0, 10, 20, 30, 80, 240>>
C11_Heights == <<0, 80, 400, 600, 1600, 5600>>
C11_Radii == <<0, 800, 2000, 4000, 9600, 19200>>

\* C11: for an animated elevation, at each breakpoint 0,1,2,3,8,24 the offset
\* height is 0, 0.1, 0.5, 0.75, 2, 7 and the radius 0, 1, 2.5, 5, 12, 24; for
\* an input strictly between two adjacent breakpoints height and radius lie on
\* the straight line between the outputs of those breakpoints, strictly
\* between them; the opacity is 0.35 and the offset width 0.
C11_DynamicShadow ==
    elevation.kind = "animated" =>
        /\ style.shadowOpacity = 280
        /\ style.shadowOffset.width = 0
        /\ \A k \in 1..6 :
              elevation.v = C11_Inputs[k] =>
                 /\ style.shadowOffset.height = C11_Heights[k]
                 /\ style.shadowRadius = C11_Radii[k]
        /\ \A k \in 1..5 :
              (C11_Inputs[k] < elevation.v /\ elevation.v < C11_Inputs[k + 1]) =>
                 LET a == C11_Inputs[k]
                     b == C11_Inputs[k + 1]
                     h == style.shadowOffset.height
                     r == style.shadowRadius
                 IN  /\ (h - C11_Heights[k]) * (b - a) =
                           (C11_Heights[k + 1] - C11_Heights[k]) * (elevation.v - a)
                     /\ (r - C11_Radii[k]) * (b - a) =
                           (C11_Radii[k + 1] - C11_Radii[k]) * (elevation.v - a)
                     /\ C11_Heights[k] < h /\ h < C11_Heights[k + 1]
                     /\ C11_Radii[k] < r /\ r < C11_Radii[k + 1]

\* C11 witness: the animated elevation moved to 16, half way between the
\* breakpoints 8 and 24: height 4.5, radius 18
C11_Witness ==
    /\ elevation = AnimatedValue(160)
    /\ style.shadowOffset.height = 3600
    /\ style.shadowRadius = 14400
    /\ style.shadowOpacity = 280

\* C12: when props.open changed while the composite animation of an earlier
\* transition was in flight (delayed stagger members included), then once all
\* animations have settled the backdrop and every entry are at the targets
\* of the latest transition: 0.32 and 1 if open, 0 and 0 if not.
C12_LastWriterWins ==
    (mounted /\ transition /\ interrupted /\ groups = <<>>) =>
        /\ backdrop = (IF open THEN 32 ELSE 0)
        /\ \A i \in 1..Len(animations) :
              animations[i] = (IF open THEN 100 ELSE 0)

\* C13: every update (so every update in which the state changed) starts one
\* timing of fade from its current value to 1 if isOpen and to 0 if not,
\* replacing the one in flight; the timing ends exactly 200*scale after its
\* start, at its target; and with no further update fade ends up at the
\* target of the latest update.
C13_ProgressAnimation ==
    /\ [][iconRenders' = iconRenders + 1 =>
             /\ fadeAnim' = [st |-> "run", from |-> fade,
                             to |-> IF isOpen' THEN 100 ELSE 0, elapsed |-> 0]
             /\ fade' = fade
         ]_vars
    /\ [][(fadeAnim.st = "run" /\ iconRenders' = iconRenders) =>
             /\ (fadeAnim'.st = "idle")
                   <=> (fadeAnim.elapsed + 50 * Scale = 200 * Scale)
             /\ fadeAnim'.st = "idle" => fade' = fadeAnim.to
             /\ fadeAnim'.st = "run" =>
                   /\ fadeAnim'.to = fadeAnim.to
                   /\ fadeAnim'.from = fadeAnim.from
         ]_vars
    /\ (iconRenders > 0)
          ~> (fadeAnim.st = "idle" /\ fade = (IF isOpen THEN 100 ELSE 0))

\* C13 witness: an update that changed the icon replaced a timing in flight
C13_Witness ==
    /\ iconMounted
    /\ iconRenders >= 2
    /\ lastSource # source
    /\ previousIcon = lastSource
    /\ fadeAnim.st = "run"
    /\ fadeAnim.elapsed = 0
    /\ fadeAnim.from \notin {0, 100}
    /\ fadeAnim.from = fade
    /\ fadeAnim.to = (IF isOpen THEN 100 ELSE 0)

\* C14: a tap on the FAB calls the external onPress first, if there is one,
\* and then the group issues exactly one onStateChange, with the negation of
\* props.open; a tap on the backdrop (which takes taps only while open)
\* issues exactly one onStateChange({open: false}).
C14_ToggleAndBackdropRequests ==
    (trace # <<>> /\ trace[1].call \in {"onPress", "onStateChange"}) =>
        /\ \A k \in 2..Len(trace) : trace[k].call # "onPress"
        /\ Cardinality({k \in 1..Len(trace) :
                           /\ trace[k].call = "onStateChange"
                           /\ trace[k].by = "group"}) = 1
        /\ trace[Len(trace)].call = "onStateChange"
        /\ trace[Len(trace)].by = "group"
        /\ trace[Len(trace)].open = ~open

\* C15: in every render, for every action i, the item's opacity is
\* itemProgress[i]; its scale is 0.8 + 0.2 * itemProgress[i] when props.open
\* is true and exactly 1 when it is false.
C15_VisualDerivation ==
    mounted =>
        \A i \in 1..Len(actions) :
            /\ ItemStyle(i).opacity = animations[i]
            /\ ItemStyle(i).scale =
                  (IF open THEN 400 + animations[i] ELSE 500)

\* C15 witness: in the middle of a closing transition an item is partly
\* transparent at full size
C15_Witness ==
    /\ mounted
    /\ ~open
    /\ transition
    /\ \E i \in 1..Len(actions) :
          /\ animations[i] \notin {0, 100}
          /\ ItemStyle(i).opacity = animations[i]
          /\ ItemStyle(i).scale = 500

\* C16: for an animated elevation above the last breakpoint 24 the offset
\* height stays 7 and the radius 24; below the first breakpoint 0 both stay 0.
C16_ClampsAtEnds ==
    elevation.kind = "animated" =>
        /\ elevation.v > 240 =>
              /\ style.shadowOffset.height = 5600
              /\ style.shadowRadius = 19200
        /\ elevation.v < 0 =>
              /\ style.shadowOffset.height = 0
              /\ style.shadowRadius = 0

\* C17: whenever no animation is in flight, right after the mount included,
\* the backdrop value is 0.32 if props.open is true and 0 if it is false.
C17_BackdropAgreesWithOpen ==
    (mounted /\ groups = <<>>) => backdrop = (IF open THEN 32 ELSE 0)

\* C18: while props.open is false no action onPress has been called and the
\* group has issued no close request; the only request the group can have
\* issued is the toggle button's onStateChange({open: true}).
C18_ClosedGroupIsGated ==
    (mounted /\ ~open) =>
        \A k \in 1..Len(trace) :
            /\ trace[k].call # "action.onPress"
            /\ (trace[k].call = "onStateChange" /\ trace[k].by = "group")
                  => (trace[k].open = TRUE /\ k = Len(trace))

\* C18 witness: the toggle button of a closed group with actions was tapped
C18_Witness ==
    /\ mounted
    /\ ~open
    /\ Len(actions) > 0
    /\ trace # <<>>
    /\ trace[Len(trace)] = Call("onStateChange", 0, TRUE, "group", FALSE)

====
